---- MODULE Spec2Model ----
(***************************************************************************)
(* HomebridgeMagichomeDynamicPlatform (src/src/platform.ts): the restore   *)
(* hook configureAccessory, the run discoverDevices (scan with rescans,    *)
(* the per-device reconciliation loop inside one try/catch, the pruning    *)
(* sweep, the summary) and the allow-list test isAllowed.                  *)
(*                                                                         *)
(* JavaScript strings that the code searches (displayName,                 *)
(* blacklistOrWhitelist) are sequences of one-character strings, so that   *)
(* toLowerCase() and includes() are computed and not assumed.  JavaScript  *)
(* values of the configuration are tagged records [t |-> type, v |-> ...]. *)
(***************************************************************************)
EXTENDS Integers, Sequences, FiniteSets, TLC

VARIABLES
    config,             \* this.config: deviceManagement and pruning
    toRestore,          \* homebridge's cached accessories not yet restored
    registry,           \* UUIDs homebridge holds as registered accessories
    accessories,        \* this.accessories
    pc,                 \* position of the process
    devices,            \* discoverDevices: devices
    scans,              \* discoverDevices: scans
    idx,                \* position of the for-of loop over devices (1-based)
    sweepIdx,           \* position of the for-of loop over this.accessories
    registeredDevices,  \* discoverDevices: registeredDevices
    newDevices,         \* discoverDevices: newDevices
    unseenDevices,      \* discoverDevices: unseenDevices
    effects,            \* history: registry calls of this run, in order
    scanCalls,          \* history: calls of discover.scan in this run
    caught,             \* history: index of the device whose processing threw, 0 if none
    restored,           \* history: the accessories as homebridge held them at process start
    streak,             \* history: per UUID, runs missed since it was persisted with counter 0
    prevDevices,        \* history: the discovery results of the previous run, if any
    allowArg,           \* isAllowed under test: its argument
    allowOut            \* isAllowed under test: its outcome

vars == <<config, toRestore, registry, accessories, pc, devices, scans, idx,
          sweepIdx, registeredDevices, newDevices, unseenDevices, effects,
          scanCalls, caught, restored, streak, prevDevices, allowArg, allowOut>>

runVars == <<toRestore, registry, accessories, pc, devices, scans, idx,
             sweepIdx, registeredDevices, newDevices, unseenDevices, effects,
             scanCalls, caught, restored, streak, prevDevices>>

-----------------------------------------------------------------------------
(* Bounds of the model *)

\* longest discovery result
MaxDevices == 2
\* largest configured restartsBeforeMissingAccessoriesPruned
MaxThreshold == 2
\* a process is only restarted while every persisted counter is below this
MaxRestartsSinceSeen == 2

UniqueIds == {"A1", "B2"}
IPs == {"10.0.0.5", "10.0.0.9"}

-----------------------------------------------------------------------------
(* Strings *)

Str(s) == [t |-> "string", v |-> s]
Undefined == [t |-> "undefined"]
Null == [t |-> "null"]
Num(n) == [t |-> "number", v |-> n]
Arr(s) == [t |-> "array", v |-> s]

sBlacklist == <<"b","l","a","c","k","l","i","s","t">>
sWhitelist == <<"w","h","i","t","e","l","i","s","t">>
sDelete == <<"d","e","l","e","t","e">>

\* String.prototype.toLowerCase, on the letters the model uses
LowerChar(c) ==
    CASE c = "D" -> "d" [] c = "E" -> "e" [] c = "L" -> "l" [] c = "T" -> "t"
      [] c = "R" -> "r" [] c = "G" -> "g" [] c = "B" -> "b"
      [] OTHER -> c
toLowerCase(s) == [i \in 1..Len(s) |-> LowerChar(s[i])]

\* String.prototype.includes
includes(s, sub) ==
    \E i \in 0..(Len(s) - Len(sub)) : SubSeq(s, i + 1, i + Len(sub)) = sub

\* hap.uuid.generate: a deterministic, collision-free digest of its argument
generate(data) == <<"uuid", data>>

-----------------------------------------------------------------------------
(* isAllowed, lines 296-314 *)

\* the condition of lines 301-305 as JavaScript evaluates it: "throw" when a
\* property is read from undefined or includes is called on a value that has
\* none, "deny" when the condition holds, "pass" when it does not
allowListTest(dm, uniqueId) ==
    IF dm.t # "object" THEN "throw"
    ELSE LET list == dm.blacklistedUniqueIDs
             mode == dm.blacklistOrWhitelist
         IN  IF list.t = "undefined" \/ mode.t = "undefined" THEN "pass"
             ELSE IF list.t # "array" THEN "throw"
             ELSE IF mode.t # "string" THEN "throw"
             ELSE IF \/ (uniqueId \in list.v /\ includes(mode.v, sBlacklist))
                     \/ (uniqueId \notin list.v /\ includes(mode.v, sWhitelist))
                  THEN "deny"
                  ELSE "pass"

\* a catch block that rethrows and leaves the flag cleared
isAllowed_failClosed(uniqueId) ==
    LET r == allowListTest(config.deviceManagement, uniqueId)
    IN  [value |-> (r = "pass"), threw |-> (r = "throw")]

\* a test that reads the list as an allow-set in both modes
isAllowed_modeIgnored(uniqueId) ==
    LET dm == config.deviceManagement
    IN  [value |-> ~(/\ allowListTest(dm, uniqueId) # "throw"
                     /\ dm.blacklistedUniqueIDs.t = "array"
                     /\ dm.blacklistOrWhitelist.t = "string"
                     /\ uniqueId \notin dm.blacklistedUniqueIDs.v),
         threw |-> FALSE]

\* isAllowed(uniqueId): value is what it returns, threw whether an error
\* leaves it; the try/catch of lines 299-311 keeps isAllowed = true on a throw
isAllowed(uniqueId) ==
    LET r == allowListTest(config.deviceManagement, uniqueId)
    IN  [value |-> (r # "deny"), threw |-> FALSE]

-----------------------------------------------------------------------------
(* Values *)

nameRGB == <<"R","G","B">>
nameMarked == <<"R","G","B"," ","D","e","L","E","T","E">>
DisplayNames == {nameRGB, nameMarked}

Devices == [uniqueId : UniqueIds, ipAddress : IPs]
UUIDs == {generate(u) : u \in UniqueIds}

SeqsUpTo(S, n) == UNION {[1..k -> S] : k \in 0..n}
DiscoveryResults == SeqsUpTo(Devices, MaxDevices)

Accessory(device, name, ip, n) ==
    [UUID |-> generate(device.uniqueId),
     context |-> [displayName |-> name, device |-> device,
                  cachedIPAddress |-> ip, restartsSinceSeen |-> n]]

\* what earlier process lifetimes can have left in homebridge's cache: at most
\* one accessory per UUID, each created by lines 135-152 and since renamed,
\* missed or matched
PersistedAccessories(u) ==
    {Accessory([uniqueId |-> u, ipAddress |-> ip], name, ip, n) :
        ip \in {"10.0.0.5"}, name \in DisplayNames,
        n \in 0..(MaxRestartsSinceSeen - 1)}
PersistedCaches ==
    UNION {{{f[u] : u \in S} : f \in {g \in [S -> UNION {PersistedAccessories(u) : u \in S}] :
                                          \A u \in S : g[u] \in PersistedAccessories(u)}} :
           S \in SUBSET UniqueIds}

PruningConfigs ==
    [pruneMissingCachedAccessories : BOOLEAN,
     pruneAllAccessoriesNextRestart : BOOLEAN,
     restartsBeforeMissingAccessoriesPruned : 1..MaxThreshold]

DeviceManagement(list, mode) ==
    [t |-> "object", blacklistedUniqueIDs |-> list, blacklistOrWhitelist |-> mode]

\* the configurations of the runs: no deviceManagement section, a blacklist, a
\* whitelist, an empty whitelist
RunDeviceManagement ==
    {Undefined,
     DeviceManagement(Arr({"A1"}), Str(sBlacklist)),
     DeviceManagement(Arr({"A1"}), Str(sWhitelist)),
     DeviceManagement(Arr({}), Str(sWhitelist))}

StreakOf(cache) ==
    [u \in UUIDs |->
        IF \E a \in cache : a.UUID = u /\ a.context.restartsSinceSeen = 0
        THEN 0 ELSE -1]

NoCall == [value |-> TRUE, threw |-> FALSE, done |-> FALSE]

Init ==
    /\ config \in [deviceManagement : RunDeviceManagement, pruning : PruningConfigs]
    /\ toRestore \in PersistedCaches
    /\ registry = {a.UUID : a \in toRestore}
    /\ accessories = <<>>
    /\ pc = "restore"
    /\ devices = <<>>
    /\ scans = 0
    /\ idx = 1
    /\ sweepIdx = 1
    /\ registeredDevices = 0
    /\ newDevices = 0
    /\ unseenDevices = 0
    /\ effects = <<>>
    /\ scanCalls = 0
    /\ caught = 0
    /\ restored = toRestore
    /\ streak = StreakOf(toRestore)
    /\ prevDevices = <<>>
    /\ allowArg = "A1"
    /\ allowOut = NoCall

-----------------------------------------------------------------------------
(* Start of a process *)

\* a restore hook that leaves the counter as persisted
ConfigureAccessory_noIncrement(accessory) ==
    /\ pc = "restore"
    /\ accessory \in toRestore
    /\ toRestore' = toRestore \ {accessory}
    /\ accessories' = Append(accessories, accessory)
    /\ UNCHANGED <<config, registry, pc, devices, scans, idx, sweepIdx,
                   registeredDevices, newDevices, unseenDevices, effects,
                   scanCalls, caught, restored, streak, prevDevices,
                   allowArg, allowOut>>

\* configureAccessory, lines 44-57
ConfigureAccessory(accessory) ==
    /\ pc = "restore"
    /\ accessory \in toRestore
    /\ toRestore' = toRestore \ {accessory}
    /\ accessories' = Append(accessories,
                             [accessory EXCEPT !.context.restartsSinceSeen = @ + 1])
    /\ UNCHANGED <<config, registry, pc, devices, scans, idx, sweepIdx,
                   registeredDevices, newDevices, unseenDevices, effects,
                   scanCalls, caught, restored, streak, prevDevices,
                   allowArg, allowOut>>

\* the didFinishLaunching callback, lines 32-37, and lines 72-74 of
\* discoverDevices: homebridge has restored every cached accessory
DidFinishLaunching ==
    /\ pc = "restore"
    /\ toRestore = {}
    /\ pc' = "scan"
    /\ registeredDevices' = 0
    /\ newDevices' = 0
    /\ unseenDevices' = 0
    /\ UNCHANGED <<config, toRestore, registry, accessories, devices, scans,
                   idx, sweepIdx, effects, scanCalls, caught, restored, streak,
                   prevDevices, allowArg, allowOut>>

-----------------------------------------------------------------------------
(* Scan, lines 78-90 *)

\* the number of rescans after an empty first scan, line 80
MaxRescans == 5

\* a loop that counts the first scan among the five
ScanAgain_firstCounted(found, n) == Len(found) = 0 /\ n < MaxRescans - 1

\* the loop condition of line 80
ScanAgain(found, n) == Len(found) = 0 /\ n < MaxRescans

\* lines 78-79; results is what discover.scan can return
FirstScan(results) ==
    /\ pc = "scan"
    /\ \E found \in results : devices' = found
    /\ scans' = 0
    /\ scanCalls' = scanCalls + 1
    /\ pc' = "rescan"
    /\ UNCHANGED <<config, toRestore, registry, accessories, idx, sweepIdx,
                   registeredDevices, newDevices, unseenDevices, effects,
                   caught, restored, streak, prevDevices, allowArg, allowOut>>

\* lines 80-84, one iteration
Rescan(results) ==
    /\ pc = "rescan"
    /\ ScanAgain(devices, scans)
    /\ \E found \in results : devices' = found
    /\ scans' = scans + 1
    /\ scanCalls' = scanCalls + 1
    /\ UNCHANGED <<config, toRestore, registry, accessories, pc, idx, sweepIdx,
                   registeredDevices, newDevices, unseenDevices, effects,
                   caught, restored, streak, prevDevices, allowArg, allowOut>>

DiscoveredUUIDs(found) == {generate(found[i].uniqueId) : i \in 1..Len(found)}

\* lines 80 and 86-94: the loop is left and the try block entered; scans is
\* not read again and is dropped here, with the count of the calls
ScanDone ==
    /\ pc = "rescan"
    /\ ~ScanAgain(devices, scans)
    /\ pc' = "loop"
    /\ idx' = 1
    /\ scans' = 0
    /\ scanCalls' = 0
    /\ streak' = [u \in UUIDs |->
                    IF u \in DiscoveredUUIDs(devices) THEN -1
                    ELSE IF streak[u] >= 0 THEN streak[u] + 1 ELSE -1]
    /\ UNCHANGED <<config, toRestore, registry, accessories, devices,
                   sweepIdx, registeredDevices, newDevices, unseenDevices,
                   effects, caught, restored, prevDevices, allowArg, allowOut>>

-----------------------------------------------------------------------------
(* Reconciliation loop, lines 94-229 *)

\* a call of registerPlatformAccessories, updatePlatformAccessories or
\* unregisterPlatformAccessories, with the part of discoverDevices that made it
Effect(op, uuid) == [op |-> op, UUID |-> uuid, by |-> pc]

\* a lookup that compares the accessory's UUID with the device's uniqueId
find_byUniqueId(accs, uuid) == 0

\* this.accessories.find(accessory => accessory.UUID === uuid), line 105: the
\* index of the first match, 0 for undefined
find(accs, uuid) ==
    IF \E i \in 1..Len(accs) : accs[i].UUID = uuid
    THEN CHOOSE i \in 1..Len(accs) :
            /\ accs[i].UUID = uuid
            /\ \A j \in 1..(i - 1) : accs[j].UUID # uuid
    ELSE 0

\* deviceType.convenientName of discover.createAccessory, line 115
ConvenientNames == {nameRGB}

InLoop == pc = "loop" /\ idx <= Len(devices)
device == devices[idx]
uuid == generate(device.uniqueId)

\* a lookup that takes the head of the cache whatever the device is
existingAccessory_first == IF Len(accessories) > 0 THEN 1 ELSE 0

\* line 105
existingAccessory == find(accessories, uuid)

\* lines 184-199: the counter is reset and the cached address follows the
\* discovered one
matched(accessory, dev) ==
    [accessory EXCEPT !.context.restartsSinceSeen = 0,
                      !.context.cachedIPAddress = dev.ipAddress]

\* a catch that returns from discoverDevices after logging
NewDeviceQueryFails_returns ==
    /\ InLoop
    /\ existingAccessory = 0
    /\ caught' = idx
    /\ pc' = "done"
    /\ sweepIdx' = 1
    /\ UNCHANGED <<config, toRestore, registry, accessories, devices, scans,
                   idx, registeredDevices, newDevices, unseenDevices, effects,
                   scanCalls, restored, streak, prevDevices, allowArg, allowOut>>

\* lines 113-123 and 226-229: createAccessory or getState rejects for a new
\* device; the catch around the loop logs, and the sweep follows
NewDeviceQueryFails ==
    /\ InLoop
    /\ existingAccessory = 0
    /\ caught' = idx
    /\ pc' = "sweep"
    /\ sweepIdx' = 1
    /\ UNCHANGED <<config, toRestore, registry, accessories, devices, scans,
                   idx, registeredDevices, newDevices, unseenDevices, effects,
                   scanCalls, restored, streak, prevDevices, allowArg, allowOut>>

\* a rejection that leaves the loop instead of going on to the next device
NewDeviceDisallowed_breaks ==
    /\ InLoop
    /\ existingAccessory = 0
    /\ ~isAllowed(device.uniqueId).value
    /\ pc' = "sweep"
    /\ UNCHANGED <<config, toRestore, registry, accessories, idx, devices,
                   scans, sweepIdx, registeredDevices, newDevices,
                   unseenDevices, effects, scanCalls, caught, restored, streak,
                   prevDevices, allowArg, allowOut>>

\* lines 113-132: a new device that isAllowed rejects
NewDeviceDisallowed ==
    /\ InLoop
    /\ existingAccessory = 0
    /\ ~isAllowed(device.uniqueId).value
    /\ idx' = idx + 1
    /\ UNCHANGED <<config, toRestore, registry, accessories, pc, devices,
                   scans, sweepIdx, registeredDevices, newDevices,
                   unseenDevices, effects, scanCalls, caught, restored, streak,
                   prevDevices, allowArg, allowOut>>

\* lines 113-172: a new device is registered and pushed into the cache
RegisterNewDevice ==
    /\ InLoop
    /\ existingAccessory = 0
    /\ isAllowed(device.uniqueId).value
    /\ \E name \in ConvenientNames :
          accessories' = Append(accessories,
                                Accessory(device, name, device.ipAddress, 0))
    /\ registry' = registry \cup {uuid}
    /\ effects' = Append(effects, Effect("register", uuid))
    /\ registeredDevices' = registeredDevices + 1
    /\ newDevices' = newDevices + 1
    /\ idx' = idx + 1
    /\ UNCHANGED <<config, toRestore, pc, devices, scans, sweepIdx,
                   unseenDevices, scanCalls, caught, restored, streak,
                   prevDevices, allowArg, allowOut>>

\* a rejection of a cached device that warns and leaves the registry alone
CachedDeviceDisallowed_warnsOnly ==
    /\ InLoop
    /\ existingAccessory # 0
    /\ LET e == matched(accessories[existingAccessory], device)
       IN  /\ ~isAllowed(e.context.device.uniqueId).value
           /\ accessories' = [accessories EXCEPT ![existingAccessory] = e]
    /\ idx' = idx + 1
    /\ UNCHANGED <<config, toRestore, registry, effects, pc, devices, scans,
                   sweepIdx, registeredDevices, newDevices, unseenDevices,
                   scanCalls, caught, restored, streak, prevDevices, allowArg,
                   allowOut>>

\* lines 179-206: a cached device that isAllowed rejects
CachedDeviceDisallowed ==
    /\ InLoop
    /\ existingAccessory # 0
    /\ LET e == matched(accessories[existingAccessory], device)
       IN  /\ ~isAllowed(e.context.device.uniqueId).value
           /\ accessories' = [accessories EXCEPT ![existingAccessory] = e]
           /\ registry' = registry \ {e.UUID}
           /\ effects' = Append(effects, Effect("unregister", e.UUID))
    /\ idx' = idx + 1
    /\ UNCHANGED <<config, toRestore, pc, devices, scans, sweepIdx,
                   registeredDevices, newDevices, unseenDevices, scanCalls,
                   caught, restored, streak, prevDevices, allowArg, allowOut>>

\* an update that leaves the registered counter alone
UpdateCachedDevice_notCounted ==
    /\ InLoop
    /\ existingAccessory # 0
    /\ LET e == matched(accessories[existingAccessory], device)
       IN  /\ isAllowed(e.context.device.uniqueId).value
           /\ accessories' = [accessories EXCEPT ![existingAccessory] = e]
           /\ effects' = Append(effects, Effect("update", e.UUID))
    /\ registeredDevices' = registeredDevices
    /\ idx' = idx + 1
    /\ UNCHANGED <<config, toRestore, registry, pc, devices, scans, sweepIdx,
                   newDevices, unseenDevices, scanCalls, caught, restored,
                   streak, prevDevices, allowArg, allowOut>>

\* lines 179-221: a cached device is updated
UpdateCachedDevice ==
    /\ InLoop
    /\ existingAccessory # 0
    /\ LET e == matched(accessories[existingAccessory], device)
       IN  /\ isAllowed(e.context.device.uniqueId).value
           /\ accessories' = [accessories EXCEPT ![existingAccessory] = e]
           /\ effects' = Append(effects, Effect("update", e.UUID))
    /\ registeredDevices' = registeredDevices + 1
    /\ idx' = idx + 1
    /\ UNCHANGED <<config, toRestore, registry, pc, devices, scans, sweepIdx,
                   newDevices, unseenDevices, scanCalls, caught, restored,
                   streak, prevDevices, allowArg, allowOut>>

\* line 96: the loop has run through devices
LoopDone ==
    /\ pc = "loop"
    /\ idx > Len(devices)
    /\ pc' = "sweep"
    /\ sweepIdx' = 1
    /\ UNCHANGED <<config, toRestore, registry, accessories, devices, scans,
                   idx, registeredDevices, newDevices, unseenDevices, effects,
                   scanCalls, caught, restored, streak, prevDevices,
                   allowArg, allowOut>>

-----------------------------------------------------------------------------
(* Pruning sweep, lines 236-282 *)

\* a test that forgets toLowerCase
markedForDeletion_caseSensitive(accessory) ==
    includes(accessory.context.displayName, sDelete)

\* line 237
markedForDeletion(accessory) ==
    includes(toLowerCase(accessory.context.displayName), sDelete)

\* a threshold compared with > instead of >=
missingTooLong_strict(accessory) ==
    LET pruning == config.pruning
    IN  /\ pruning.pruneMissingCachedAccessories \/ pruning.pruneAllAccessoriesNextRestart
        /\ \/ accessory.context.restartsSinceSeen > pruning.restartsBeforeMissingAccessoriesPruned
           \/ pruning.pruneAllAccessoriesNextRestart

\* a threshold applied without looking at pruneMissingCachedAccessories
missingTooLong_flagIgnored(accessory) ==
    LET pruning == config.pruning
    IN  \/ accessory.context.restartsSinceSeen >= pruning.restartsBeforeMissingAccessoriesPruned
        \/ pruning.pruneAllAccessoriesNextRestart

\* lines 245-246
missingTooLong(accessory) ==
    LET pruning == config.pruning
    IN  /\ pruning.pruneMissingCachedAccessories \/ pruning.pruneAllAccessoriesNextRestart
        /\ \/ accessory.context.restartsSinceSeen >= pruning.restartsBeforeMissingAccessoriesPruned
           \/ pruning.pruneAllAccessoriesNextRestart

InSweep == pc = "sweep" /\ sweepIdx <= Len(accessories)

\* a sweep over a copy of the cache taken before the loop
swept_stale ==
    LET a == accessories[sweepIdx]
    IN  IF \E r \in restored : r.UUID = a.UUID
        THEN LET r == CHOOSE r \in restored : r.UUID = a.UUID
             IN  [r EXCEPT !.context.restartsSinceSeen = @ + 1]
        ELSE a

\* line 236: the accessory of this iteration, as the loop left it
swept == accessories[sweepIdx]

Unregister(accessory) ==
    /\ registry' = registry \ {accessory.UUID}
    /\ effects' = Append(effects, Effect("unregister", accessory.UUID))
    /\ sweepIdx' = sweepIdx + 1
    /\ UNCHANGED <<config, toRestore, accessories, pc, devices, scans, idx,
                   registeredDevices, newDevices, unseenDevices, scanCalls,
                   caught, restored, streak, prevDevices, allowArg, allowOut>>

\* lines 237-241
SweepMarked ==
    /\ InSweep
    /\ markedForDeletion(swept)
    /\ Unregister(swept)

\* lines 245-251
SweepMissing ==
    /\ InSweep
    /\ ~markedForDeletion(swept)
    /\ missingTooLong(swept)
    /\ Unregister(swept)

\* lines 254-262
SweepDisallowed ==
    /\ InSweep
    /\ ~markedForDeletion(swept)
    /\ ~missingTooLong(swept)
    /\ swept.context.restartsSinceSeen > 0
    /\ ~isAllowed(swept.context.device.uniqueId).value
    /\ Unregister(swept)

\* a sweep that forgets unseenDevices++
SweepUnseen_notCounted ==
    /\ InSweep
    /\ ~markedForDeletion(swept)
    /\ ~missingTooLong(swept)
    /\ swept.context.restartsSinceSeen > 0
    /\ isAllowed(swept.context.device.uniqueId).value
    /\ effects' = Append(effects, Effect("update", swept.UUID))
    /\ registeredDevices' = registeredDevices + 1
    /\ sweepIdx' = sweepIdx + 1
    /\ UNCHANGED <<config, toRestore, registry, accessories, pc, devices,
                   scans, idx, newDevices, unseenDevices, scanCalls, caught,
                   restored, streak, prevDevices, allowArg, allowOut>>

\* lines 254-279
SweepUnseen ==
    /\ InSweep
    /\ ~markedForDeletion(swept)
    /\ ~missingTooLong(swept)
    /\ swept.context.restartsSinceSeen > 0
    /\ isAllowed(swept.context.device.uniqueId).value
    /\ effects' = Append(effects, Effect("update", swept.UUID))
    /\ registeredDevices' = registeredDevices + 1
    /\ unseenDevices' = unseenDevices + 1
    /\ sweepIdx' = sweepIdx + 1
    /\ UNCHANGED <<config, toRestore, registry, accessories, pc, devices,
                   scans, idx, newDevices, scanCalls, caught, restored, streak,
                   prevDevices, allowArg, allowOut>>

\* lines 254 and 280-282: nothing to do for an accessory seen in this run
SweepSeen ==
    /\ InSweep
    /\ ~markedForDeletion(swept)
    /\ ~missingTooLong(swept)
    /\ ~(swept.context.restartsSinceSeen > 0)
    /\ sweepIdx' = sweepIdx + 1
    /\ UNCHANGED <<config, toRestore, registry, accessories, pc, devices,
                   scans, idx, registeredDevices, newDevices, unseenDevices,
                   effects, scanCalls, caught, restored, streak, prevDevices,
                   allowArg, allowOut>>

\* lines 285-290: the summary is logged and discoverDevices returns
Summary ==
    /\ pc = "sweep"
    /\ sweepIdx > Len(accessories)
    /\ pc' = "done"
    /\ UNCHANGED <<config, toRestore, registry, accessories, devices, scans,
                   idx, sweepIdx, registeredDevices, newDevices, unseenDevices,
                   effects, scanCalls, caught, restored, streak, prevDevices,
                   allowArg, allowOut>>

-----------------------------------------------------------------------------
(* Restart *)

\* what homebridge persists: the registered accessories with their contexts
Persisted == {accessories[i] : i \in {j \in 1..Len(accessories) :
                                          accessories[j].UUID \in registry}}

\* a new process, lines 20 and 22-38: homebridge restarts with the accessories
\* it holds, this.accessories is empty again
NewProcess(keep) ==
    /\ pc = "done"
    /\ \A a \in Persisted : a.context.restartsSinceSeen < MaxRestartsSinceSeen
    /\ toRestore' = Persisted
    /\ restored' = Persisted
    /\ accessories' = <<>>
    /\ pc' = "restore"
    /\ devices' = <<>>
    /\ scans' = 0
    /\ idx' = 1
    /\ sweepIdx' = 1
    /\ registeredDevices' = 0
    /\ newDevices' = 0
    /\ unseenDevices' = 0
    /\ effects' = <<>>
    /\ scanCalls' = 0
    /\ caught' = 0
    /\ streak' = [u \in UUIDs |->
                    IF \E a \in Persisted : a.UUID = u
                    THEN (IF \E a \in Persisted :
                                a.UUID = u /\ a.context.restartsSinceSeen = 0
                          THEN 0 ELSE streak[u])
                    ELSE -1]
    /\ prevDevices' = keep
    /\ UNCHANGED <<config, registry, allowArg, allowOut>>

\* one process lifetime: restore, then one run of discoverDevices
Next ==
    \/ \E a \in toRestore : ConfigureAccessory(a)
    \/ DidFinishLaunching
    \/ FirstScan(DiscoveryResults)
    \/ Rescan(DiscoveryResults)
    \/ ScanDone
    \/ NewDeviceQueryFails
    \/ NewDeviceDisallowed
    \/ RegisterNewDevice
    \/ CachedDeviceDisallowed
    \/ UpdateCachedDevice
    \/ LoopDone
    \/ SweepMarked
    \/ SweepMissing
    \/ SweepDisallowed
    \/ SweepUnseen
    \/ SweepSeen
    \/ Summary

Spec == Init /\ [][Next]_vars

\* the process is restarted and the network answers every later run as it
\* answered the first; the state queries of new devices fail or not as before
Restart == NewProcess(<<devices>>)
AsBefore == IF prevDevices = <<>> THEN DiscoveryResults ELSE {prevDevices[1]}

NextRestarts ==
    \/ \E a \in toRestore : ConfigureAccessory(a)
    \/ DidFinishLaunching
    \/ FirstScan(AsBefore)
    \/ Rescan(AsBefore)
    \/ ScanDone
    \/ NewDeviceQueryFails
    \/ NewDeviceDisallowed
    \/ RegisterNewDevice
    \/ CachedDeviceDisallowed
    \/ UpdateCachedDevice
    \/ LoopDone
    \/ SweepMarked
    \/ SweepMissing
    \/ SweepDisallowed
    \/ SweepUnseen
    \/ SweepSeen
    \/ Summary
    \/ Restart

SpecRestarts == Init /\ [][NextRestarts]_vars

-----------------------------------------------------------------------------
(* isAllowed on its own *)

sBoth == sBlacklist \o <<" ">> \o sWhitelist
sCapital == <<"W">> \o Tail(sWhitelist)

AllowLists == {Undefined, Null, Arr({}), Arr({"A1"}), Arr({"A1", "B2"})}
AllowModes == {Undefined, Null, Num(1), Str(sBlacklist), Str(sWhitelist),
               Str(sBoth), Str(sCapital), Str(<<>>)}
AllowDeviceManagement ==
    {Undefined} \cup {DeviceManagement(l, m) : l \in AllowLists, m \in AllowModes}
QueryIds == UniqueIds \cup {"C3"}

InitAllow ==
    /\ config \in [deviceManagement : AllowDeviceManagement,
                    pruning : {[pruneMissingCachedAccessories |-> FALSE,
                                pruneAllAccessoriesNextRestart |-> FALSE,
                                restartsBeforeMissingAccessoriesPruned |-> 1]}]
    /\ toRestore = {}
    /\ registry = {}
    /\ accessories = <<>>
    /\ pc = "isAllowed"
    /\ devices = <<>>
    /\ scans = 0
    /\ idx = 1
    /\ sweepIdx = 1
    /\ registeredDevices = 0
    /\ newDevices = 0
    /\ unseenDevices = 0
    /\ effects = <<>>
    /\ scanCalls = 0
    /\ caught = 0
    /\ restored = {}
    /\ streak = StreakOf({})
    /\ prevDevices = <<>>
    /\ allowArg = "A1"
    /\ allowOut = NoCall

\* one call of isAllowed, lines 296-314
CallIsAllowed(uniqueId) ==
    /\ pc = "isAllowed"
    /\ ~allowOut.done
    /\ allowArg' = uniqueId
    /\ allowOut' = [value |-> isAllowed(uniqueId).value,
                    threw |-> isAllowed(uniqueId).threw,
                    done |-> TRUE]
    /\ UNCHANGED <<config, runVars>>

NextAllow == \E uniqueId \in QueryIds : CallIsAllowed(uniqueId)

SpecAllow == InitAllow /\ [][NextAllow]_vars

-----------------------------------------------------------------------------
(* Properties *)

HasEffect(op, u, by) ==
    \E k \in 1..Len(effects) : effects[k] = [op |-> op, UUID |-> u, by |-> by]
Indices(u) == {i \in 1..Len(accessories) : accessories[i].UUID = u}
RestoredOf(u) == {r \in restored : r.UUID = u}
ListedOnce(found, id) == Cardinality({j \in 1..Len(found) : found[j].uniqueId = id}) = 1
Threshold == config.pruning.restartsBeforeMissingAccessoriesPruned

\* C1: when the state query of one new device fails, every other discovered
\* device is still processed in that run: a new allowed one is registered, a
\* cached one has restartsSinceSeen = 0 and, if allowed, is updated.
C1_PerDeviceIsolation ==
    (pc = "done" /\ caught # 0) =>
        \A j \in 1..Len(devices) :
            LET id == devices[j].uniqueId
                u == generate(id)
            IN  (j # caught /\ id # devices[caught].uniqueId) =>
                    /\ (RestoredOf(u) = {} /\ isAllowed(id).value) =>
                            HasEffect("register", u, "loop")
                    /\ RestoredOf(u) # {} =>
                            /\ \A i \in Indices(u) :
                                    accessories[i].context.restartsSinceSeen = 0
                            /\ isAllowed(id).value => HasEffect("update", u, "loop")

\* C2 as stated: when every scan returns an empty list, the scan loop is left
\* after exactly 5 calls of discover.scan.
C2_FiveScans ==
    (pc = "rescan" /\ ~ScanAgain(devices, scans) /\ devices = <<>>) =>
        scanCalls = 5

\* C2, amended: when every scan returns an empty list, the scan loop is left
\* after exactly 6 calls of discover.scan (the first scan and 5 rescans), and
\* the run goes on with the empty list without an error.
C2_SixScans ==
    /\ (pc = "rescan" /\ ~ScanAgain(devices, scans) /\ devices = <<>>) =>
            scanCalls = MaxRescans + 1
    /\ (pc = "rescan" /\ devices = <<>>) => scanCalls = scans + 1
    /\ (pc \in {"loop", "sweep", "done"} /\ devices = <<>>) =>
            (caught = 0 /\ newDevices = 0)

C2_Witness ==
    /\ pc = "rescan"
    /\ devices = <<>>
    /\ ~ScanAgain(devices, scans)
    /\ scanCalls = 6

\* C3: at the end of a run every accessory whose uniqueId was discovered has
\* restartsSinceSeen = 0, and every restored accessory whose uniqueId was not
\* discovered has its persisted restartsSinceSeen plus 1.
C3_CounterAtEndOfRun ==
    pc = "done" =>
        \A i \in 1..Len(accessories) :
            LET a == accessories[i]
            IN  /\ a.UUID \in DiscoveredUUIDs(devices) =>
                        a.context.restartsSinceSeen = 0
                /\ \A r \in RestoredOf(a.UUID) :
                        a.UUID \notin DiscoveredUUIDs(devices) =>
                            a.context.restartsSinceSeen =
                                r.context.restartsSinceSeen + 1

\* C4: with pruneMissingCachedAccessories and without
\* pruneAllAccessoriesNextRestart, an allowed accessory without the delete
\* mark that was persisted with restartsSinceSeen = 0 and has since been
\* missed in k consecutive runs has restartsSinceSeen = k; while k is below
\* the threshold it stays registered and is updated by the sweep, and in the
\* run where k reaches the threshold it is unregistered.
C4_MissingAccumulation ==
    (/\ pc = "done"
     /\ config.pruning.pruneMissingCachedAccessories
     /\ ~config.pruning.pruneAllAccessoriesNextRestart) =>
        \A i \in 1..Len(accessories) :
            LET a == accessories[i]
                k == streak[a.UUID]
            IN  (/\ k >= 1
                 /\ a.context.displayName # nameMarked
                 /\ isAllowed(a.context.device.uniqueId).value) =>
                    /\ a.context.restartsSinceSeen = k
                    /\ k <= Threshold
                    /\ k < Threshold =>
                            /\ a.UUID \in registry
                            /\ HasEffect("update", a.UUID, "sweep")
                            /\ ~HasEffect("unregister", a.UUID, "sweep")
                    /\ k = Threshold =>
                            /\ a.UUID \notin registry
                            /\ HasEffect("unregister", a.UUID, "sweep")
                            /\ ~HasEffect("update", a.UUID, "sweep")

\* an accessory missed for the second run in a row is pruned at threshold 2,
\* having been kept in the run before
C4_Witness ==
    /\ pc = "done"
    /\ config.pruning.pruneMissingCachedAccessories
    /\ ~config.pruning.pruneAllAccessoriesNextRestart
    /\ Threshold = 2
    /\ prevDevices # <<>>
    /\ \E i \in 1..Len(accessories) :
            /\ streak[accessories[i].UUID] = 2
            /\ accessories[i].context.displayName # nameMarked
            /\ isAllowed(accessories[i].context.device.uniqueId).value
            /\ HasEffect("unregister", accessories[i].UUID, "sweep")

\* C5 as stated: a second run with the discovery results of the first makes
\* no new registration, and every accessory ends it with the cachedIPAddress
\* and restartsSinceSeen it had at the end of the first run.
C5_SecondRunChangesNothing ==
    (pc = "done" /\ prevDevices # <<>>) =>
        /\ newDevices = 0
        /\ \A i \in 1..Len(accessories) :
                \E r \in RestoredOf(accessories[i].UUID) :
                    /\ accessories[i].context.cachedIPAddress = r.context.cachedIPAddress
                    /\ accessories[i].context.restartsSinceSeen = r.context.restartsSinceSeen

\* C5, amended: in a second run with the discovery results of the first, each
\* uniqueId listed once, no device with an accessory in the cache the first
\* run left is registered; an accessory that both runs matched or registered
\* ends the second run with the same cachedIPAddress and restartsSinceSeen = 0;
\* an accessory the second run does not match ends it with the same
\* cachedIPAddress and restartsSinceSeen one higher.
C5_SecondRun ==
    (/\ pc = "done"
     /\ prevDevices # <<>>
     /\ \A j \in 1..Len(devices) : ListedOnce(devices, devices[j].uniqueId)) =>
        /\ \A k \in 1..Len(effects) :
                effects[k].op = "register" => RestoredOf(effects[k].UUID) = {}
        /\ \A i \in 1..Len(accessories) :
                \A r \in RestoredOf(accessories[i].UUID) :
                    LET c == accessories[i].context
                    IN  /\ (c.restartsSinceSeen = 0 /\ r.context.restartsSinceSeen = 0) =>
                                c.cachedIPAddress = r.context.cachedIPAddress
                        /\ c.restartsSinceSeen # 0 =>
                                /\ c.restartsSinceSeen = r.context.restartsSinceSeen + 1
                                /\ c.cachedIPAddress = r.context.cachedIPAddress

\* a second run that matches one accessory again and misses another again
C5_Witness ==
    /\ pc = "done"
    /\ prevDevices # <<>>
    /\ \A j \in 1..Len(devices) : ListedOnce(devices, devices[j].uniqueId)
    /\ \E i \in 1..Len(accessories) :
          \E r \in RestoredOf(accessories[i].UUID) :
            /\ r.context.restartsSinceSeen = 0
            /\ accessories[i].context.restartsSinceSeen = 0
            /\ HasEffect("update", accessories[i].UUID, "loop")
    /\ \E i \in 1..Len(accessories) :
          \E r \in RestoredOf(accessories[i].UUID) :
            /\ r.context.restartsSinceSeen = 1
            /\ accessories[i].context.restartsSinceSeen = 2

\* C6: isAllowed returns true when the list or the mode is not configured;
\* with mode "blacklist" it returns false exactly for the ids in the list;
\* with mode "whitelist" it returns false exactly for the ids not in the list.
C6_DecisionTable ==
    allowOut.done =>
        LET dm == config.deviceManagement
        IN  IF dm.t # "object" THEN allowOut.value
            ELSE /\ (dm.blacklistedUniqueIDs.t = "undefined"
                        \/ dm.blacklistOrWhitelist.t = "undefined") => allowOut.value
                 /\ (dm.blacklistedUniqueIDs.t = "array"
                        /\ dm.blacklistOrWhitelist = Str(sBlacklist)) =>
                        (~allowOut.value <=> allowArg \in dm.blacklistedUniqueIDs.v)
                 /\ (dm.blacklistedUniqueIDs.t = "array"
                        /\ dm.blacklistOrWhitelist = Str(sWhitelist)) =>
                        (~allowOut.value <=> allowArg \notin dm.blacklistedUniqueIDs.v)

\* a blacklisted id is rejected
C6_Witness ==
    /\ allowOut.done
    /\ config.deviceManagement = DeviceManagement(Arr({"A1"}), Str(sBlacklist))
    /\ allowArg = "A1"
    /\ ~allowOut.value

\* C7: when the evaluation of the allow-list configuration raises an error,
\* isAllowed returns true and the error does not leave it.
C7_FailOpen ==
    (allowOut.done /\ allowListTest(config.deviceManagement, allowArg) = "throw") =>
        (allowOut.value /\ ~allowOut.threw)

\* includes is called on a list that is null
C7_Witness ==
    /\ allowOut.done
    /\ config.deviceManagement = DeviceManagement(Null, Str(sWhitelist))
    /\ allowListTest(config.deviceManagement, allowArg) = "throw"
    /\ allowOut.value

\* C8: when a discovered device has the uniqueId of a cached accessory and
\* another ipAddress, after reconciliation the accessory's cachedIPAddress is
\* the discovered ipAddress, there is one accessory with that UUID and no
\* register effect for it.
C8_AddressDrift ==
    pc \in {"sweep", "done"} =>
        \A r \in restored : \A j \in 1..Len(devices) :
            (/\ generate(devices[j].uniqueId) = r.UUID
             /\ ListedOnce(devices, devices[j].uniqueId)
             /\ devices[j].ipAddress # r.context.cachedIPAddress) =>
                /\ Cardinality(Indices(r.UUID)) = 1
                /\ \A i \in Indices(r.UUID) :
                        accessories[i].context.cachedIPAddress = devices[j].ipAddress
                /\ ~HasEffect("register", r.UUID, "loop")

\* C9: every accessory of the cache whose displayName contains "delete" in any
\* letter case is unregistered by the sweep, whatever the pruning flags, its
\* restartsSinceSeen and the allow-list.
C9_DeleteMark ==
    pc = "done" =>
        \A i \in 1..Len(accessories) :
            accessories[i].context.displayName = nameMarked =>
                /\ HasEffect("unregister", accessories[i].UUID, "sweep")
                /\ ~HasEffect("update", accessories[i].UUID, "sweep")
                /\ accessories[i].UUID \notin registry

\* a marked accessory seen in this run is pruned with both pruning flags off
C9_Witness ==
    /\ pc = "done"
    /\ ~config.pruning.pruneMissingCachedAccessories
    /\ ~config.pruning.pruneAllAccessoriesNextRestart
    /\ \E i \in 1..Len(accessories) :
            /\ accessories[i].context.displayName = nameMarked
            /\ accessories[i].context.restartsSinceSeen = 0
            /\ isAllowed(accessories[i].context.device.uniqueId).value
            /\ HasEffect("unregister", accessories[i].UUID, "sweep")

\* C10: registerPlatformAccessories is only called for a UUID that is neither
\* in the cache nor in the registry, also when a uniqueId is listed twice, and
\* the cache never holds two accessories with one UUID.
C10_RegisterOnce ==
    /\ \A k \in 1..Len(effects) :
            effects[k].op = "register" =>
                /\ RestoredOf(effects[k].UUID) = {}
                /\ \A m \in 1..(k - 1) :
                        ~(effects[m].op = "register" /\ effects[m].UUID = effects[k].UUID)
    /\ \A i, j \in 1..Len(accessories) :
            accessories[i].UUID = accessories[j].UUID => i = j
    /\ registry \subseteq {r.UUID : r \in restored}
                            \cup {accessories[i].UUID : i \in 1..Len(accessories)}

\* a uniqueId listed twice in a run after a restart: registered at the first
\* listing, matched and updated at the second
C10_Witness ==
    /\ pc = "done"
    /\ prevDevices # <<>>
    /\ Len(devices) = 2
    /\ devices[1].uniqueId = devices[2].uniqueId
    /\ Len(effects) >= 2
    /\ effects[1].op = "register"
    /\ effects[2] = [op |-> "update", UUID |-> effects[1].UUID, by |-> "loop"]

-----------------------------------------------------------------------------
(* What the documented rules require of a run, stated without the operators  *)
(* of the model: the allow-list of RunDeviceManagement, the effect of each   *)
(* discovered device, the effect of the sweep on each accessory.             *)

Disallowed(id) ==
    LET dm == config.deviceManagement
    IN  /\ dm.t = "object"
        /\ \/ (dm.blacklistOrWhitelist = Str(sBlacklist) /\ id \in dm.blacklistedUniqueIDs.v)
           \/ (dm.blacklistOrWhitelist = Str(sWhitelist) /\ id \notin dm.blacklistedUniqueIDs.v)

AllListedOnce == \A j \in 1..Len(devices) : ListedOnce(devices, devices[j].uniqueId)
ByLoop(e) == e.by = "loop"
BySweep(e) == e.by = "sweep"
IsRegister(e) == e.op = "register"
IsUpdate(e) == e.op = "update"
IsUnregister(e) == e.op = "unregister"
Count(seq, u, op) ==
    Cardinality({k \in 1..Len(seq) : seq[k].UUID = u /\ seq[k].op = op})

\* the device at position j has an accessory in the cache when its turn comes:
\* restored, or registered at an earlier listing in this run
Known(j) ==
    \/ RestoredOf(generate(devices[j].uniqueId)) # {}
    \/ /\ ~Disallowed(devices[j].uniqueId)
       /\ \E m \in 1..(j - 1) : devices[m].uniqueId = devices[j].uniqueId

LoopEffectOf(j) ==
    LET id == devices[j].uniqueId
        op == IF Known(j)
              THEN (IF Disallowed(id) THEN "unregister" ELSE "update")
              ELSE "register"
    IN  IF ~Known(j) /\ Disallowed(id) THEN <<>>
        ELSE <<[op |-> op, UUID |-> generate(id), by |-> "loop"]>>

RECURSIVE ExpectedLoop(_)
ExpectedLoop(n) == IF n = 0 THEN <<>> ELSE ExpectedLoop(n - 1) \o LoopEffectOf(n)

\* the number of discovered devices the loop has dealt with
Processed ==
    IF pc \in {"loop", "sweep", "done"}
    THEN (IF caught > 0 THEN caught - 1 ELSE idx - 1)
    ELSE 0

\* C11: in a run without a processing error, each uniqueId listed once, new is
\* the number of discovered allowed devices without a cache entry, cached-seen
\* (registered - new - unseen) the number of discovered allowed devices with
\* one, unseen the number of cached accessories neither discovered nor pruned,
\* and registered their sum; an empty cache and one allowed device give
\* registered 1, new 1, cached-seen 0, unseen 0.
C11_SummaryCounters ==
    (pc = "done" /\ caught = 0 /\ AllListedOnce) =>
        LET new == {j \in 1..Len(devices) :
                        /\ RestoredOf(generate(devices[j].uniqueId)) = {}
                        /\ ~Disallowed(devices[j].uniqueId)}
            seen == {j \in 1..Len(devices) :
                        /\ RestoredOf(generate(devices[j].uniqueId)) # {}
                        /\ ~Disallowed(devices[j].uniqueId)}
            unseen == {r \in restored :
                        /\ r.UUID \notin DiscoveredUUIDs(devices)
                        /\ r.UUID \in registry}
        IN  /\ newDevices = Cardinality(new)
            /\ registeredDevices - newDevices - unseenDevices = Cardinality(seen)
            /\ unseenDevices = Cardinality(unseen)
            /\ registeredDevices =
                    Cardinality(new) + Cardinality(seen) + Cardinality(unseen)
            /\ (restored = {} /\ Len(devices) = 1 /\ Cardinality(new) = 1) =>
                    /\ registeredDevices = 1
                    /\ newDevices = 1
                    /\ unseenDevices = 0

\* one new, one cached and seen, none unseen; and the scenario of the spec
C11_Witness ==
    /\ pc = "done"
    /\ caught = 0
    /\ config.deviceManagement = Undefined
    /\ Len(devices) = 2
    /\ AllListedOnce
    /\ Cardinality(restored) = 1
    /\ newDevices = 1
    /\ registeredDevices = 2
    /\ unseenDevices = 0

\* C12: with pruneAllAccessoriesNextRestart off, a cached accessory without
\* the delete mark whose allowed device is in the discovery results of a run
\* is not unregistered by the sweep of that run, also when the processing of
\* another discovered device fails.
C12_DiscoveredNeverPrunedAsMissing ==
    (pc = "done" /\ ~config.pruning.pruneAllAccessoriesNextRestart) =>
        \A r \in restored :
            (/\ r.UUID \in DiscoveredUUIDs(devices)
             /\ r.context.displayName # nameMarked
             /\ ~Disallowed(r.context.device.uniqueId)) =>
                /\ ~HasEffect("unregister", r.UUID, "sweep")
                /\ r.UUID \in registry

\* C13: when the processing of the k-th discovered device throws, the registry
\* effects, counters and context changes made for the devices 1..k-1 are
\* kept, the error stays inside discoverDevices, and the sweep runs over the
\* whole cache before the summary.
C13_PartialRun ==
    caught > 0 =>
        /\ pc \in {"sweep", "done"}
        /\ SelectSeq(effects, ByLoop) = ExpectedLoop(caught - 1)
        /\ newDevices = Len(SelectSeq(SelectSeq(effects, ByLoop), IsRegister))
        /\ \A j \in 1..(caught - 1) :
                (Known(j) \/ ~Disallowed(devices[j].uniqueId)) =>
                    \E i \in Indices(generate(devices[j].uniqueId)) :
                        /\ accessories[i].context.restartsSinceSeen = 0
                        /\ \E m \in 1..(caught - 1) :
                             /\ devices[m].uniqueId = devices[j].uniqueId
                             /\ accessories[i].context.cachedIPAddress = devices[m].ipAddress
        /\ pc = "done" =>
                /\ sweepIdx = Len(accessories) + 1
                /\ \A i \in 1..Len(accessories) :
                        accessories[i].context.displayName = nameMarked =>
                            HasEffect("unregister", accessories[i].UUID, "sweep")

\* the second device throws after the first was matched at a new address; its
\* update and its corrected address are kept and the sweep prunes it
C13_Witness ==
    /\ pc = "done"
    /\ caught = 2
    /\ config.pruning.pruneAllAccessoriesNextRestart
    /\ HasEffect("update", generate(devices[1].uniqueId), "loop")
    /\ registeredDevices = 1
    /\ \E i \in Indices(generate(devices[1].uniqueId)) :
            /\ accessories[i].context.cachedIPAddress = "10.0.0.9"
            /\ accessories[i].context.restartsSinceSeen = 0
    /\ HasEffect("unregister", generate(devices[1].uniqueId), "sweep")

\* the rule of the sweep that applies to the accessory at position i of the
\* cache, by the precedence of the documented decision table
SweepRuleOf(i) ==
    LET c == accessories[i].context
        pruning == config.pruning
    IN  IF c.displayName = nameMarked THEN "marked"
        ELSE IF \/ (/\ pruning.pruneMissingCachedAccessories
                    /\ c.restartsSinceSeen >= pruning.restartsBeforeMissingAccessoriesPruned)
                \/ pruning.pruneAllAccessoriesNextRestart
             THEN "missing"
        ELSE IF c.restartsSinceSeen > 0
             THEN (IF Disallowed(c.device.uniqueId) THEN "disallowed" ELSE "unseen")
        ELSE "none"

SweepEffectOf(i) ==
    LET rule == SweepRuleOf(i)
    IN  IF rule = "none" THEN <<>>
        ELSE <<[op |-> IF rule = "unseen" THEN "update" ELSE "unregister",
                UUID |-> accessories[i].UUID, by |-> "sweep"]>>

RECURSIVE ExpectedSweep(_)
ExpectedSweep(n) == IF n = 0 THEN <<>> ELSE ExpectedSweep(n - 1) \o SweepEffectOf(n)

\* the number of accessories the sweep has dealt with
Swept == IF pc \in {"sweep", "done"} THEN sweepIdx - 1 ELSE 0

\* C14: for every accessory of the cache after reconciliation the sweep does
\* what the first matching rule says: (1) delete mark: unregister; (2)
\* (pruneMissingCachedAccessories and restartsSinceSeen >= threshold) or
\* pruneAllAccessoriesNextRestart: unregister; (3) restartsSinceSeen > 0:
\* unregister if disallowed, else update and count as unseen; (4) nothing.
C14_SweepDecisionTable ==
    /\ SelectSeq(effects, BySweep) = ExpectedSweep(Swept)
    /\ unseenDevices = Cardinality({i \in 1..Swept : SweepRuleOf(i) = "unseen"})
    /\ \A i \in 1..Swept :
            SweepRuleOf(i) \in {"marked", "missing", "disallowed"} =>
                accessories[i].UUID \notin registry

\* the four rules in one sweep is more than two accessories give; here rule 3
\* keeps one accessory and rule 2 prunes the other, with the flag on
C14_Witness ==
    /\ pc = "done"
    /\ Len(accessories) = 2
    /\ config.pruning.pruneMissingCachedAccessories
    /\ \E i, j \in 1..2 :
            /\ SweepRuleOf(i) = "unseen"
            /\ SweepRuleOf(j) = "missing"
            /\ HasEffect("update", accessories[i].UUID, "sweep")
            /\ HasEffect("unregister", accessories[j].UUID, "sweep")

\* C15: the registry effects of a run are those of the discovered devices in
\* the order of the discovery result, followed by those of the sweep in the
\* order of the cache, and the sweep decides on the cache as reconciliation
\* left it: counters reset, addresses corrected, new accessories included.
C15_EffectOrder ==
    /\ effects = ExpectedLoop(Processed) \o ExpectedSweep(Swept)
    /\ \A k, m \in 1..Len(effects) :
            (k < m /\ effects[k].by = "sweep") => effects[m].by = "sweep"
    /\ pc = "done" =>
            \A i \in 1..Len(accessories) :
                (/\ accessories[i].context.restartsSinceSeen = 0
                 /\ accessories[i].context.displayName # nameMarked
                 /\ ~config.pruning.pruneAllAccessoriesNextRestart) =>
                    ~HasEffect("unregister", accessories[i].UUID, "sweep")

\* two devices handled in order, the first registered and then pruned by the
\* sweep of the same run, the second matched and spared by its reset counter
C15_Witness ==
    /\ pc = "done"
    /\ Len(devices) = 2
    /\ Len(effects) >= 3
    /\ effects[1] = [op |-> "register", UUID |-> generate(devices[1].uniqueId), by |-> "loop"]
    /\ effects[2] = [op |-> "update", UUID |-> generate(devices[2].uniqueId), by |-> "loop"]
    /\ effects[3].by = "sweep"
    /\ HasEffect("unregister", effects[1].UUID, "sweep")

\* the discovered device at position j has no cache entry at the start of the
\* run and is disallowed
SkippedNew(j) ==
    /\ RestoredOf(generate(devices[j].uniqueId)) = {}
    /\ Disallowed(devices[j].uniqueId)

\* C16: a discovered device without a cache entry that the allow-list
\* disallows is skipped: no registry effect is issued for it, no accessory for
\* it enters the cache or the registry, the new and registered counters count
\* only the register and update calls made, and the loop goes on to the
\* devices after it.
C16_NewDisallowedSkipped ==
    /\ \A j \in 1..Processed :
            SkippedNew(j) =>
                LET u == generate(devices[j].uniqueId)
                IN  /\ \A k \in 1..Len(effects) : effects[k].UUID # u
                    /\ Indices(u) = {}
                    /\ u \notin registry
    /\ newDevices = Cardinality({k \in 1..Len(effects) : effects[k].op = "register"})
    /\ registeredDevices =
            Cardinality({k \in 1..Len(effects) : effects[k].op \in {"register", "update"}})
    /\ (pc \in {"sweep", "done"} /\ caught = 0) =>
            /\ Processed = Len(devices)
            /\ SelectSeq(effects, ByLoop) = ExpectedLoop(Len(devices))

\* the first device is skipped and the second, allowed and new, is registered
C16_Witness ==
    /\ pc = "done"
    /\ caught = 0
    /\ Len(devices) = 2
    /\ SkippedNew(1)
    /\ newDevices = 1
    /\ registeredDevices = 1
    /\ HasEffect("register", generate(devices[2].uniqueId), "loop")

\* the restored accessories that no discovered device of this run matches
Unmatched == {r \in restored : r.UUID \notin DiscoveredUUIDs(devices)}

\* C17: the reconciliation loop leaves alone every cache entry whose UUID no
\* discovered device has: restartsSinceSeen is the restored value plus the one
\* of the start of the run, cachedIPAddress, displayName and device are those
\* restored, and the loop issues no registry effect for it.
C17_UnmatchedUntouched ==
    pc \in {"loop", "sweep", "done"} =>
        \A r \in Unmatched :
            /\ Indices(r.UUID) # {}
            /\ \A i \in Indices(r.UUID) :
                    /\ accessories[i].context.restartsSinceSeen =
                            r.context.restartsSinceSeen + 1
                    /\ accessories[i].context.cachedIPAddress = r.context.cachedIPAddress
                    /\ accessories[i].context.displayName = r.context.displayName
                    /\ accessories[i].context.device = r.context.device
            /\ \A k \in 1..Len(effects) :
                    effects[k].UUID = r.UUID => effects[k].by = "sweep"

\* the loop has ended after changing one cached accessory (counter reset and
\* address corrected) while another, undiscovered, stayed as restored
C17_Witness ==
    /\ pc = "sweep"
    /\ sweepIdx = 1
    /\ caught = 0
    /\ Unmatched # {}
    /\ \E r \in restored \ Unmatched :
            /\ HasEffect("update", r.UUID, "loop")
            /\ \E i \in Indices(r.UUID) :
                    /\ accessories[i].context.restartsSinceSeen = 0
                    /\ accessories[i].context.cachedIPAddress # r.context.cachedIPAddress

\* C18: at the end of a run no accessory of a disallowed uniqueId is in the
\* registry, whether or not the loop was cut short: a disallowed new device is
\* never registered, a disallowed cached accessory is never updated, it is
\* unregistered by the loop when a processed device matched it and by the
\* sweep when none did.
C18_NoDisallowedRegistered ==
    pc = "done" =>
        \A id \in UniqueIds :
            Disallowed(id) =>
                LET u == generate(id)
                IN  /\ u \notin registry
                    /\ \A k \in 1..Len(effects) :
                            effects[k].UUID = u => effects[k].op = "unregister"
                    /\ \A i \in Indices(u) :
                            IF accessories[i].context.restartsSinceSeen = 0
                            THEN HasEffect("unregister", u, "loop")
                            ELSE HasEffect("unregister", u, "sweep")

\* the loop stopped at the first device; the second, cached and disallowed, was
\* never reached by the loop and was unregistered by the sweep
C18_Witness ==
    /\ pc = "done"
    /\ caught = 1
    /\ Len(devices) = 2
    /\ Disallowed(devices[2].uniqueId)
    /\ RestoredOf(generate(devices[2].uniqueId)) # {}
    /\ ~HasEffect("unregister", generate(devices[2].uniqueId), "loop")
    /\ HasEffect("unregister", generate(devices[2].uniqueId), "sweep")
    /\ ~config.pruning.pruneAllAccessoriesNextRestart
    /\ generate(devices[2].uniqueId) \notin registry

\* C19: within one run unregisterPlatformAccessories is called at most once
\* for any accessory, the loop and the sweep taken together.
C19_UnregisterAtMostOnce ==
    \A u \in UUIDs : Count(effects, u, "unregister") <= 1

\* the accessories that got a register or update call in this run
Counted == {u \in UUIDs : Count(effects, u, "register") + Count(effects, u, "update") > 0}

\* C20 as stated: at the end of a run the registered count of the summary is
\* the number of accessories in the registry.
C20_CountEqualsRegistry ==
    pc = "done" => registeredDevices = Cardinality(registry)

\* C20: at the end of a run the registered count of the summary is the number
\* of register and update calls made in the run; it is never below the size
\* of the registry, and when each uniqueId is listed once it exceeds it by
\* the number of accessories registered or updated and then pruned in the run.
C20_CountsCalls ==
    pc = "done" =>
        /\ registeredDevices =
                Cardinality({k \in 1..Len(effects) : effects[k].op # "unregister"})
        /\ registry \subseteq Counted
        /\ registeredDevices >= Cardinality(registry)
        /\ AllListedOnce =>
                registeredDevices = Cardinality(registry) + Cardinality(Counted \ registry)

\* a device registered by the loop and pruned by the sweep of the same run is
\* in the count and not in the registry
C20_Witness ==
    /\ pc = "done"
    /\ AllListedOnce
    /\ registeredDevices = 1
    /\ registry = {}
    /\ \E u \in UUIDs :
            /\ HasEffect("register", u, "loop")
            /\ HasEffect("unregister", u, "sweep")

====
